---- MODULE Spec2Model ----
(***************************************************************************)
(* Model of von_agent.wallet.Wallet (src/von_agent/wallet.py): lifecycle   *)
(* of wallet objects over the indy-sdk wallet/did backend.                 *)
(*                                                                         *)
(* Python values are written by their repr ("True", "(1,)"), JSON values   *)
(* by their JSON text ("true", "[1]").  The Python None is the string      *)
(* "None" where a string is expected and the handle 0 where a backend      *)
(* handle is expected.                                                     *)
(***************************************************************************)
EXTENDS Integers, Sequences, FiniteSets, TLC

(***************************************************************************)
(* Bounds                                                                  *)
(***************************************************************************)
\* the backend hands out at most this many session handles
MaxOpens == 2
\* a wallet stores at most this many identities
MaxDids == 2
MaxCalls == 2

(***************************************************************************)
(* Input domains                                                           *)
(***************************************************************************)
\* the two wallet objects of test_wallet: w, and x constructed on the same name
Objs == {"w", "x"}
Names == {"my-wallet"}
Pools == {"pool"}
CfgKeys == {"auto_remove", "freshness_time"}
PyVals == {"True", "False", "None", "(1,)", "[1]"}
Seeds == {"s1", "s2"}
DidArgs == {"None", "dx"}
\* cid keeps its default
CidArgs == {FALSE}

\* the dicts over CfgKeys
Dicts == UNION {[K -> PyVals] : K \in SUBSET CfgKeys}
EmptyDict == [k \in {} |-> "None"]
\* the cfg argument of the constructor: None, or a dict
CfgArgs == {[none |-> TRUE, d |-> EmptyDict]} \cup {[none |-> FALSE, d |-> d] : d \in Dicts}
\* the configurations of the lifecycle runs: the default, auto-remove, and one with backend options
LifecycleCfgArgs ==
  {[none |-> TRUE, d |-> EmptyDict],
   [none |-> FALSE, d |-> [k \in {"auto_remove"} |-> "True"]],
   [none |-> FALSE, d |-> [k \in CfgKeys |-> IF k = "auto_remove" THEN "False" ELSE "(1,)"]]}

(***************************************************************************)
(* json                                                                    *)
(***************************************************************************)
\* json.dumps of a value: a tuple and a list both encode as an array
JsonDumpsVal(pv) ==
  CASE pv = "True" -> "true"
    [] pv = "False" -> "false"
    [] pv = "None" -> "null"
    [] pv = "(1,)" -> "[1]"
    [] pv = "[1]" -> "[1]"
    [] OTHER -> pv

\* json.loads of a value: an array decodes as a list
JsonLoadsVal(jv) ==
  CASE jv = "true" -> "True"
    [] jv = "false" -> "False"
    [] jv = "null" -> "None"
    [] jv = "[1]" -> "[1]"
    [] OTHER -> jv

\* json.dumps(dict): the JSON object with the same keys
JsonDumps(d) == [k \in DOMAIN d |-> JsonDumpsVal(d[k])]
\* json.loads(object)
JsonLoads(j) == [k \in DOMAIN j |-> JsonLoadsVal(j[k])]

\* dict.pop(key) guarded by "key in dict"
DictPop(d, key) == [k \in (DOMAIN d) \ {key} |-> d[k]]

\* truth value of a Python value
Truthy(pv) == pv \notin {"False", "None", "0", "''", "()", "[]", "{}"}

\* dict.get(key, default)
DictGet(d, key, default) == IF key \in DOMAIN d THEN d[key] ELSE default

(***************************************************************************)
(* Exceptions                                                              *)
(***************************************************************************)
NoExc == [kind |-> "none", code |-> "none"]
IndyError(code) == [kind |-> "IndyError", code |-> code]
PyError(kind) == [kind |-> kind, code |-> "none"]

\* names bound at module level by the imports of wallet.py
ModuleGlobals == {"indy_did", "wallet", "IndyError", "ErrorCode", "json", "logging", "logger", "Wallet"}
\* attributes an instance of Wallet has
InstanceAttrs == {"_pool_name", "_name", "_handle", "_cfg", "_did", "_verkey",
                  "pool_name", "name", "handle", "cfg", "did", "verkey"}

(***************************************************************************)
(* State                                                                   *)
(***************************************************************************)
VARIABLES
  pool_name,   \* Wallet._pool_name, per object
  name,        \* Wallet._name
  handle,      \* Wallet._handle (0 is None)
  cfg,         \* Wallet._cfg
  did,         \* Wallet._did ("None" is None)
  verkey,      \* Wallet._verkey
  store,       \* backend: persisted wallets by name
  sessions,    \* backend: open sessions, handle -> wallet name
  nextHandle,  \* backend: next session handle
  last,        \* the last operation: what it called, returned and raised
  scope,       \* per object, the "async with" block it is used in
  pending,     \* create_did/load_did calls awaiting the backend, in the order issued
  readyq,      \* calls whose backend request is done, in the order they will resume
  done         \* the backend requests done for such calls, in the order done

vars == <<pool_name, name, handle, cfg, did, verkey, store, sessions, nextHandle, last,
          scope, pending, readyq, done>>

\* the calls that tasks of one event loop have in flight
asyncVars == <<pending, readyq, done>>

\* what an operation awaited to its end, outside any "async with" block, leaves alone
auxVars == <<scope, pending, readyq, done>>

objVars == <<pool_name, name, handle, cfg, did, verkey>>

\* config argument of a backend call: json.dumps(cfg) if cfg else None
ConfigArg(c) == IF c = EmptyDict THEN [given |-> FALSE, json |-> EmptyDict]
                ELSE [given |-> TRUE, json |-> JsonDumps(c)]
NoConfig == [given |-> FALSE, json |-> EmptyDict]

\* one backend call of an operation
Call(f, h, n, c, e) == [f |-> f, handle |-> h, name |-> n, config |-> c, exc |-> e]

NoWallet == [exists |-> FALSE, dids |-> <<>>]

\* Wallet.__init__
WalletInit(p, n, c) ==
  [pool_name |-> p, name |-> n, handle |-> 0,
   cfg |-> IF c.none \/ c.d = EmptyDict THEN EmptyDict ELSE c.d,
   did |-> "None", verkey |-> "None"]

\* the arguments the objects are constructed with: w with a configuration of
\* cw, and x, the object of the second open in test_wallet, with the default
CfgChoices(cw) == {c \in [Objs -> CfgArgs] : c["w"] \in cw /\ c["x"].none}

\* the state after the objects are constructed with configurations of cs
InitWith(cs) ==
  /\ \E p \in [Objs -> Pools], n \in [Objs -> Names], c \in cs :
       /\ pool_name = [o \in Objs |-> WalletInit(p[o], n[o], c[o]).pool_name]
       /\ name = [o \in Objs |-> WalletInit(p[o], n[o], c[o]).name]
       /\ handle = [o \in Objs |-> WalletInit(p[o], n[o], c[o]).handle]
       /\ cfg = [o \in Objs |-> WalletInit(p[o], n[o], c[o]).cfg]
       /\ did = [o \in Objs |-> WalletInit(p[o], n[o], c[o]).did]
       /\ verkey = [o \in Objs |-> WalletInit(p[o], n[o], c[o]).verkey]
  /\ store = [n \in Names |-> NoWallet]
  /\ sessions = [h \in {} |-> "None"]
  /\ nextHandle = 1
  /\ last = [op |-> "__init__", obj |-> "w", exc |-> NoExc, ret |-> "None",
             list |-> <<>>, calls |-> <<>>]
  /\ scope = [o \in Objs |-> [pc |-> "out", h |-> 0, raised |-> FALSE]]
  /\ pending = <<>>
  /\ readyq = <<>>
  /\ done = <<>>

Init == InitWith(CfgChoices(LifecycleCfgArgs))

(***************************************************************************)
(* The indy-sdk backend, as wallet.py calls it.  A call that fails with    *)
(* "fail" is any backend error other than the ones named here.             *)
(***************************************************************************)
\* indy.wallet.create_wallet(pool_name, name, xtype, config, credentials)
create_wallet(st, p, n, c, fail) ==
  IF fail THEN [exc |-> IndyError("CommonIOError"), store |-> st]
  ELSE IF st[n].exists THEN [exc |-> IndyError("WalletAlreadyExistsError"), store |-> st]
  ELSE [exc |-> NoExc, store |-> [st EXCEPT ![n] = [exists |-> TRUE, dids |-> <<>>]]]

\* indy.wallet.open_wallet(name, runtime_config, credentials)
open_wallet(st, sess, nh, n, c, fail) ==
  IF fail THEN [exc |-> IndyError("CommonIOError"), ret |-> 0, sessions |-> sess, nextHandle |-> nh]
  ELSE IF ~st[n].exists
    THEN [exc |-> IndyError("CommonIOError"), ret |-> 0, sessions |-> sess, nextHandle |-> nh]
  ELSE IF \E h \in DOMAIN sess : sess[h] = n
    THEN [exc |-> IndyError("WalletAlreadyOpenedError"), ret |-> 0, sessions |-> sess, nextHandle |-> nh]
  ELSE [exc |-> NoExc, ret |-> nh,
        sessions |-> [h \in (DOMAIN sess) \cup {nh} |-> IF h = nh THEN n ELSE sess[h]],
        nextHandle |-> nh + 1]

\* what a backend call does with a handle that is no open session:
\* None is rejected when the argument is converted, a stale handle by the backend
BadHandle(h) == IF h = 0 THEN PyError("TypeError") ELSE IndyError("WalletInvalidHandle")

\* indy.wallet.close_wallet(handle)
close_wallet(sess, h, fail) ==
  IF h \notin DOMAIN sess THEN [exc |-> BadHandle(h), sessions |-> sess]
  ELSE IF fail THEN [exc |-> IndyError("CommonIOError"), sessions |-> sess]
  ELSE [exc |-> NoExc, sessions |-> [k \in (DOMAIN sess) \ {h} |-> sess[k]]]

\* indy.wallet.delete_wallet(name, credentials)
delete_wallet(st, sess, n, fail) ==
  IF fail \/ ~st[n].exists THEN [exc |-> IndyError("CommonIOError"), store |-> st]
  ELSE IF \E h \in DOMAIN sess : sess[h] = n
    THEN [exc |-> IndyError("CommonInvalidState"), store |-> st]
  ELSE [exc |-> NoExc, store |-> [st EXCEPT ![n] = NoWallet]]

(***************************************************************************)
(* Wallet.open                                                             *)
(***************************************************************************)
\* OpenCfg with the auto_remove key left in the copy
OpenCfg_KeepAutoRemove(c) == JsonLoads(JsonDumps(c))

\* the deep copy of the configuration without the auto_remove key
OpenCfg(c) == DictPop(JsonLoads(JsonDumps(c)), "auto_remove")

\* OpenExcept that only logs whatever create_wallet raises
OpenExcept_LogOnly(e) == NoExc

\* OpenExcept with the already-exists branch lost: every IndyError is raised again
OpenExcept_RaiseExisting(e) == e

\* the except clause around create_wallet: what open() raises for e
OpenExcept(e) ==
  IF e.kind # "IndyError" THEN e
  ELSE IF e.code = "WalletAlreadyExistsError" THEN NoExc
  ELSE IF "e" \in InstanceAttrs THEN e
  ELSE PyError("AttributeError")

\* Open that pops auto_remove from the object's own configuration
Open_PopInPlace(o) ==
  /\ nextHandle <= MaxOpens
  /\ \E failCreate \in BOOLEAN, failOpen \in BOOLEAN :
       LET c == OpenCfg(cfg[o])
           cr == create_wallet(store, pool_name[o], name[o], ConfigArg(c), failCreate)
           crCall == Call("create_wallet", 0, name[o], ConfigArg(c), cr.exc)
           raised == OpenExcept(cr.exc)
           op == open_wallet(cr.store, sessions, nextHandle, name[o], ConfigArg(c), failOpen)
           opCall == Call("open_wallet", 0, name[o], ConfigArg(c), op.exc)
       IN /\ cfg' = [cfg EXCEPT ![o] = c]
          /\ IF raised # NoExc
             THEN /\ store' = cr.store
                  /\ last' = [op |-> "open", obj |-> o, exc |-> raised, ret |-> "None",
                              list |-> <<>>, calls |-> <<crCall>>]
                  /\ UNCHANGED <<pool_name, name, handle, did, verkey, sessions, nextHandle>>
             ELSE /\ store' = cr.store
                  /\ sessions' = op.sessions
                  /\ nextHandle' = op.nextHandle
                  /\ handle' = IF op.exc = NoExc THEN [handle EXCEPT ![o] = op.ret] ELSE handle
                  /\ last' = [op |-> "open", obj |-> o, exc |-> op.exc,
                              ret |-> IF op.exc = NoExc THEN o ELSE "None",
                              list |-> <<>>, calls |-> <<crCall, opCall>>]
                  /\ UNCHANGED <<pool_name, name, did, verkey>>

\* open() on object o
Open(o) ==
  /\ nextHandle <= MaxOpens
  /\ \E failCreate \in BOOLEAN, failOpen \in BOOLEAN :
       LET c == OpenCfg(cfg[o])
           cr == create_wallet(store, pool_name[o], name[o], ConfigArg(c), failCreate)
           crCall == Call("create_wallet", 0, name[o], ConfigArg(c), cr.exc)
           raised == OpenExcept(cr.exc)
           op == open_wallet(cr.store, sessions, nextHandle, name[o], ConfigArg(c), failOpen)
           opCall == Call("open_wallet", 0, name[o], ConfigArg(c), op.exc)
       IN IF raised # NoExc
          THEN /\ store' = cr.store
               /\ last' = [op |-> "open", obj |-> o, exc |-> raised, ret |-> "None",
                           list |-> <<>>, calls |-> <<crCall>>]
               /\ UNCHANGED <<objVars, sessions, nextHandle>>
          ELSE /\ store' = cr.store
               /\ sessions' = op.sessions
               /\ nextHandle' = op.nextHandle
               /\ handle' = IF op.exc = NoExc THEN [handle EXCEPT ![o] = op.ret] ELSE handle
               /\ last' = [op |-> "open", obj |-> o, exc |-> op.exc,
                           ret |-> IF op.exc = NoExc THEN o ELSE "None",
                           list |-> <<>>, calls |-> <<crCall, opCall>>]
               /\ UNCHANGED <<pool_name, name, cfg, did, verkey>>

(***************************************************************************)
(* Wallet.remove and Wallet.close                                          *)
(***************************************************************************)
\* the except clause around delete_wallet: what remove() raises for e
RemoveExcept(e) == IF "sys" \in ModuleGlobals THEN NoExc ELSE PyError("NameError")

\* the body of remove(): the store it leaves, what it raises, what it called
RemoveBody(st, sess, n, fail) ==
  LET dl == delete_wallet(st, sess, n, fail)
  IN [store |-> dl.store,
      exc |-> IF dl.exc = NoExc THEN NoExc ELSE RemoveExcept(dl.exc),
      calls |-> <<Call("delete_wallet", 0, n, NoConfig, dl.exc)>>]

Remove(o) ==
  \E fail \in BOOLEAN :
    LET rm == RemoveBody(store, sessions, name[o], fail)
    IN /\ store' = rm.store
       /\ last' = [op |-> "remove", obj |-> o, exc |-> rm.exc, ret |-> "None",
                   list |-> <<>>, calls |-> rm.calls]
       /\ UNCHANGED <<objVars, sessions, nextHandle>>

\* AutoRemove that takes every configuration as asking for removal
AutoRemove_Always(c) == TRUE

\* AutoRemove with the default of the flag turned to True
AutoRemove_DefaultTrue(c) == Truthy(DictGet(c, "auto_remove", "True"))

\* self.cfg.get('auto_remove', False), as the if statement reads it
AutoRemove(c) == Truthy(DictGet(c, "auto_remove", "False"))

Close(o) ==
  \E failClose \in BOOLEAN, failDelete \in BOOLEAN :
    LET cl == close_wallet(sessions, handle[o], failClose)
        clCall == Call("close_wallet", handle[o], "None", NoConfig, cl.exc)
        rm == RemoveBody(store, cl.sessions, name[o], failDelete)
    IN /\ sessions' = cl.sessions
       /\ IF cl.exc # NoExc
          THEN /\ last' = [op |-> "close", obj |-> o, exc |-> cl.exc, ret |-> "None",
                           list |-> <<>>, calls |-> <<clCall>>]
               /\ UNCHANGED store
          ELSE IF AutoRemove(cfg[o])
          THEN /\ store' = rm.store
               /\ last' = [op |-> "close", obj |-> o, exc |-> rm.exc, ret |-> "None",
                           list |-> <<>>, calls |-> <<clCall>> \o rm.calls]
          ELSE /\ last' = [op |-> "close", obj |-> o, exc |-> NoExc, ret |-> "None",
                           list |-> <<>>, calls |-> <<clCall>>]
               /\ UNCHANGED store
       /\ UNCHANGED <<objVars, nextHandle>>

(***************************************************************************)
(* The indy-sdk did calls                                                  *)
(***************************************************************************)
\* keys the backend draws when no seed is given
RandomKeys == {"vkr"}

\* the backend's key derivation: the verification key of a seed
VerkeyOf(seed, rnd) ==
  CASE seed = "s1" -> "vk1"
    [] seed = "s2" -> "vk2"
    [] OTHER -> rnd

\* the DID of a verification key: the explicit one, the key itself (cid), or its abbreviation
DidOf(d, vk, cid) ==
  IF d # "None" THEN d
  ELSE IF cid THEN vk
  ELSE CASE vk = "vk1" -> "did1"
         [] vk = "vk2" -> "did2"
         [] OTHER -> "didr"

IdentityRecord(d, vk) == [did |-> d, verkey |-> vk, metadata |-> "None"]

\* positions of the records of DID d
Find(ds, d) == {i \in 1..Len(ds) : ds[i].did = d}

\* indy.did.create_and_store_my_did(wallet_handle, did_json)
create_and_store_my_did(st, sess, h, d, seed, cid, rnd, fail) ==
  IF h \notin DOMAIN sess THEN [exc |-> BadHandle(h), did |-> "None", verkey |-> "None", store |-> st]
  ELSE IF fail THEN [exc |-> IndyError("CommonIOError"), did |-> "None", verkey |-> "None", store |-> st]
  ELSE LET n == sess[h]
           vk == VerkeyOf(seed, rnd)
           dd == DidOf(d, vk, cid)
           ds == st[n].dids
       IN IF \E i \in Find(ds, dd) : ds[i].verkey # vk
          THEN [exc |-> IndyError("DidAlreadyExistsError"), did |-> "None", verkey |-> "None", store |-> st]
          ELSE IF Find(ds, dd) # {}
          THEN [exc |-> NoExc, did |-> dd, verkey |-> vk, store |-> st]
          ELSE [exc |-> NoExc, did |-> dd, verkey |-> vk,
                store |-> [st EXCEPT ![n].dids = Append(ds, IdentityRecord(dd, vk))]]

\* indy.did.get_my_did_with_meta(wallet_handle, did): the JSON object of the record
get_my_did_with_meta(st, sess, h, d, fail) ==
  IF h \notin DOMAIN sess THEN [exc |-> BadHandle(h), json |-> IdentityRecord("None", "None")]
  ELSE IF fail THEN [exc |-> IndyError("CommonIOError"), json |-> IdentityRecord("None", "None")]
  ELSE LET ds == st[sess[h]].dids
       IN IF Find(ds, d) = {}
          THEN [exc |-> IndyError("WalletItemNotFound"), json |-> IdentityRecord("None", "None")]
          ELSE [exc |-> NoExc, json |-> ds[CHOOSE i \in Find(ds, d) : TRUE]]

\* indy.did.list_my_dids_with_meta(wallet_handle): the JSON array of the records
list_my_dids_with_meta(st, sess, h, fail) ==
  IF h \notin DOMAIN sess THEN [exc |-> BadHandle(h), json |-> <<>>]
  ELSE IF fail THEN [exc |-> IndyError("CommonIOError"), json |-> <<>>]
  ELSE [exc |-> NoExc, json |-> st[sess[h]].dids]

(***************************************************************************)
(* Wallet.create_did, Wallet.load_did, Wallet.stored_dids                  *)
(***************************************************************************)
\* CreateDidAssign that stores the DID and leaves the verification key
CreateDidAssign_DidOnly(o, r) ==
  /\ did' = [did EXCEPT ![o] = r.did]
  /\ UNCHANGED verkey

\* CreateDidAssign that unpacks the pair in the wrong order
CreateDidAssign_Swapped(o, r) ==
  /\ did' = [did EXCEPT ![o] = r.verkey]
  /\ verkey' = [verkey EXCEPT ![o] = r.did]

\* (self._did, self._verkey) = <the pair the backend returned>
CreateDidAssign(o, r) ==
  /\ did' = [did EXCEPT ![o] = r.did]
  /\ verkey' = [verkey EXCEPT ![o] = r.verkey]

\* CreateDidWith that clears the current identity before the backend call
CreateDidWith_ClearFirst(o, d, seed, cid, rnd, fail) ==
    LET r == create_and_store_my_did(store, sessions, handle[o], d, seed, cid, rnd, fail)
        call == Call("create_and_store_my_did", handle[o], "None", NoConfig, r.exc)
    IN /\ \A n \in Names : Len(r.store[n].dids) <= MaxDids
       /\ store' = r.store
       /\ CreateDidAssign(o, r)
       /\ last' = [op |-> "create_did", obj |-> o, exc |-> r.exc,
                   ret |-> IF r.exc = NoExc THEN r.did ELSE "None",
                   list |-> <<>>, calls |-> <<call>>]
       /\ UNCHANGED <<pool_name, name, handle, cfg, sessions, nextHandle>>

\* create_did(did, seed, cid) on object o; rnd and fail are the backend's choices
CreateDidWith(o, d, seed, cid, rnd, fail) ==
    LET r == create_and_store_my_did(store, sessions, handle[o], d, seed, cid, rnd, fail)
        call == Call("create_and_store_my_did", handle[o], "None", NoConfig, r.exc)
    IN /\ \A n \in Names : Len(r.store[n].dids) <= MaxDids
       /\ store' = r.store
       /\ IF r.exc = NoExc
          THEN /\ CreateDidAssign(o, r)
               /\ last' = [op |-> "create_did", obj |-> o, exc |-> NoExc, ret |-> r.did,
                           list |-> <<>>, calls |-> <<call>>]
          ELSE /\ last' = [op |-> "create_did", obj |-> o, exc |-> r.exc, ret |-> "None",
                           list |-> <<>>, calls |-> <<call>>]
               /\ UNCHANGED <<did, verkey>>
       /\ UNCHANGED <<pool_name, name, handle, cfg, sessions, nextHandle>>

CreateDid(o) ==
  \E d \in DidArgs, seed \in Seeds, cid \in CidArgs, rnd \in RandomKeys, fail \in BOOLEAN :
    CreateDidWith(o, d, seed, cid, rnd, fail)

\* LoadDidAssign that stores the DID and leaves the verification key
LoadDidAssign_DidOnly(o, did_info) ==
  /\ did' = [did EXCEPT ![o] = did_info.did]
  /\ UNCHANGED verkey

\* did_info = json.loads(did_json); self._did = did_info['did']; self._verkey = did_info['verkey']
LoadDidAssign(o, did_info) ==
  /\ did' = [did EXCEPT ![o] = did_info.did]
  /\ verkey' = [verkey EXCEPT ![o] = did_info.verkey]

\* the DIDs an identity of this model can have
AllDids == {DidOf(d, VerkeyOf(s, k), c) : d \in DidArgs, s \in Seeds, k \in RandomKeys, c \in CidArgs}

\* LoadDidWith that catches what the backend raises and returns None
LoadDidWith_Swallow(o, d, fail) ==
    LET r == get_my_did_with_meta(store, sessions, handle[o], d, fail)
        call == Call("get_my_did_with_meta", handle[o], "None", NoConfig, r.exc)
    IN /\ IF r.exc = NoExc
          THEN /\ LoadDidAssign(o, r.json)
               /\ last' = [op |-> "load_did", obj |-> o, exc |-> NoExc, ret |-> r.json.did,
                           list |-> <<>>, calls |-> <<call>>]
          ELSE /\ last' = [op |-> "load_did", obj |-> o, exc |-> NoExc, ret |-> "None",
                           list |-> <<>>, calls |-> <<call>>]
               /\ UNCHANGED <<did, verkey>>
       /\ UNCHANGED <<pool_name, name, handle, cfg, store, sessions, nextHandle>>

\* load_did(d) on object o
LoadDidWith(o, d, fail) ==
    LET r == get_my_did_with_meta(store, sessions, handle[o], d, fail)
        call == Call("get_my_did_with_meta", handle[o], "None", NoConfig, r.exc)
    IN /\ IF r.exc = NoExc
          THEN /\ LoadDidAssign(o, r.json)
               /\ last' = [op |-> "load_did", obj |-> o, exc |-> NoExc, ret |-> r.json.did,
                           list |-> <<>>, calls |-> <<call>>]
          ELSE /\ last' = [op |-> "load_did", obj |-> o, exc |-> r.exc, ret |-> "None",
                           list |-> <<>>, calls |-> <<call>>]
               /\ UNCHANGED <<did, verkey>>
       /\ UNCHANGED <<pool_name, name, handle, cfg, store, sessions, nextHandle>>

LoadDid(o) ==
  \E d \in AllDids, fail \in BOOLEAN : LoadDidWith(o, d, fail)

\* StoredDidsReturn that yields the records newest first
StoredDidsReturn_Reversed(json) == [i \in 1..Len(json) |-> json[Len(json) + 1 - i]]

\* return json.loads(did_json): the list of the records, in the order of the array
StoredDidsReturn(json) == [i \in 1..Len(json) |-> json[i]]

\* StoredDids that makes the first identity listed the current one
StoredDids_SetsCurrent(o) ==
  \E fail \in BOOLEAN :
    LET r == list_my_dids_with_meta(store, sessions, handle[o], fail)
        call == Call("list_my_dids_with_meta", handle[o], "None", NoConfig, r.exc)
    IN /\ last' = [op |-> "stored_dids", obj |-> o, exc |-> r.exc, ret |-> "None",
                   list |-> IF r.exc = NoExc THEN StoredDidsReturn(r.json) ELSE <<>>,
                   calls |-> <<call>>]
       /\ IF r.exc = NoExc /\ r.json # <<>>
          THEN LoadDidAssign(o, r.json[1])
          ELSE UNCHANGED <<did, verkey>>
       /\ UNCHANGED <<pool_name, name, handle, cfg, store, sessions, nextHandle>>

\* StoredDids that returns an empty list when the backend raises
StoredDids_Swallow(o) ==
  \E fail \in BOOLEAN :
    LET r == list_my_dids_with_meta(store, sessions, handle[o], fail)
        call == Call("list_my_dids_with_meta", handle[o], "None", NoConfig, r.exc)
    IN /\ last' = [op |-> "stored_dids", obj |-> o, exc |-> NoExc, ret |-> "None",
                   list |-> IF r.exc = NoExc THEN StoredDidsReturn(r.json) ELSE <<>>,
                   calls |-> <<call>>]
       /\ UNCHANGED <<objVars, store, sessions, nextHandle>>

\* stored_dids() on object o
StoredDids(o) ==
  \E fail \in BOOLEAN :
    LET r == list_my_dids_with_meta(store, sessions, handle[o], fail)
        call == Call("list_my_dids_with_meta", handle[o], "None", NoConfig, r.exc)
    IN /\ last' = [op |-> "stored_dids", obj |-> o, exc |-> r.exc, ret |-> "None",
                   list |-> IF r.exc = NoExc THEN StoredDidsReturn(r.json) ELSE <<>>,
                   calls |-> <<call>>]
       /\ UNCHANGED <<objVars, store, sessions, nextHandle>>

Next ==
  \E o \in Objs :
    \/ Open(o) /\ UNCHANGED auxVars
    \/ Close(o) /\ UNCHANGED auxVars
    \/ Remove(o) /\ UNCHANGED auxVars
    \/ CreateDid(o) /\ UNCHANGED auxVars
    \/ LoadDid(o) /\ UNCHANGED auxVars
    \/ StoredDids(o) /\ UNCHANGED auxVars

Spec == Init /\ [][Next]_vars

\* w constructed with any configuration over CfgKeys
InitCfg == InitWith(CfgChoices(CfgArgs))

\* the operations that open, close and remove wallets
NextCfg ==
  \E o \in Objs :
    \/ Open(o) /\ UNCHANGED auxVars
    \/ Close(o) /\ UNCHANGED auxVars
    \/ Remove(o) /\ UNCHANGED auxVars

SpecCfg == InitCfg /\ [][NextCfg]_vars

(***************************************************************************)
(* Wallet.__aenter__ and Wallet.__aexit__: an object used in                *)
(*   async with Wallet(...) as w: <create_did, load_did, stored_dids>      *)
(* The block is left when a call in it raises; __aexit__ runs either way.  *)
(***************************************************************************)
\* the block of o: entered with session h, and whether a call in it has raised
InBlock(h, raised) == [pc |-> "body", h |-> h, raised |-> raised]

\* rv = await self.open(); return rv
AEnter(o) ==
  /\ scope[o].pc = "out"
  /\ Open(o)
  /\ scope' = [scope EXCEPT ![o] = IF last'.exc = NoExc THEN InBlock(handle'[o], FALSE)
                                   ELSE [pc |-> "failed", h |-> 0, raised |-> FALSE]]

\* a call in the block: the block goes on when it returns
BlockAfter(o) ==
  scope' = [scope EXCEPT ![o] = InBlock(scope[o].h, last'.exc # NoExc)]

BlockCreateDid(o) ==
  /\ scope[o] = InBlock(scope[o].h, FALSE)
  /\ CreateDid(o)
  /\ BlockAfter(o)

BlockLoadDid(o) ==
  /\ scope[o] = InBlock(scope[o].h, FALSE)
  /\ LoadDid(o)
  /\ BlockAfter(o)

BlockStoredDids(o) ==
  /\ scope[o] = InBlock(scope[o].h, FALSE)
  /\ StoredDids(o)
  /\ BlockAfter(o)

\* AExit that closes the wallet only when the block returned
AExit_SkipOnError(o) ==
  /\ scope[o].pc = "body"
  /\ IF scope[o].raised
     THEN UNCHANGED <<objVars, store, sessions, nextHandle, last>>
     ELSE Close(o)
  /\ scope' = [scope EXCEPT ![o].pc = "exited"]

\* await self.close(), whether the block returned or raised
AExit(o) ==
  /\ scope[o].pc = "body"
  /\ Close(o)
  /\ scope' = [scope EXCEPT ![o].pc = "exited"]

NextScoped ==
  \E o \in Objs :
    \/ AEnter(o) /\ UNCHANGED asyncVars
    \/ BlockCreateDid(o) /\ UNCHANGED asyncVars
    \/ BlockLoadDid(o) /\ UNCHANGED asyncVars
    \/ BlockStoredDids(o) /\ UNCHANGED asyncVars
    \/ AExit(o) /\ UNCHANGED asyncVars

SpecScoped == Init /\ [][NextScoped]_vars

(***************************************************************************)
(* create_did and load_did called by several tasks of one event loop: a    *)
(* call runs to its await, where the backend request is in flight; the     *)
(* backend serves the requests one at a time, in any order; the loop       *)
(* resumes the calls in the order their requests were done, and a resumed  *)
(* call runs to its return.                                                *)
(***************************************************************************)
Issued == Len(done) + Len(pending)

\* the request of a call, with the handle the object had when it was called
Request(o, op, d, seed, cid) ==
  [id |-> Issued + 1, obj |-> o, op |-> op, h |-> handle[o], d |-> d, seed |-> seed, cid |-> cid]

\* create_did up to the await of line 219
AsyncCreateDid(o, d, seed, cid) ==
  /\ Issued < MaxCalls
  /\ pending' = Append(pending, Request(o, "create_did", d, seed, cid))
  /\ UNCHANGED <<objVars, store, sessions, nextHandle, last, scope, readyq, done>>

\* AsyncLoadDid that stores the DID asked for before awaiting the backend
AsyncLoadDid_AssignEarly(o, d) ==
  /\ Issued < MaxCalls
  /\ pending' = Append(pending, Request(o, "load_did", d, "None", FALSE))
  /\ did' = [did EXCEPT ![o] = d]
  /\ UNCHANGED <<pool_name, name, handle, cfg, verkey>>
  /\ UNCHANGED <<store, sessions, nextHandle, last, scope, readyq, done>>

\* load_did up to the await of line 227
AsyncLoadDid(o, d) ==
  /\ Issued < MaxCalls
  /\ pending' = Append(pending, Request(o, "load_did", d, "None", FALSE))
  /\ UNCHANGED <<objVars, store, sessions, nextHandle, last, scope, readyq, done>>

\* what the backend answers to request q
BackendResult(q, rnd, fail) ==
  IF q.op = "create_did"
  THEN LET r == create_and_store_my_did(store, sessions, q.h, q.d, q.seed, q.cid, rnd, fail)
       IN [exc |-> r.exc, did |-> r.did, verkey |-> r.verkey, store |-> r.store]
  ELSE LET r == get_my_did_with_meta(store, sessions, q.h, q.d, fail)
       IN [exc |-> r.exc, did |-> r.json.did, verkey |-> r.json.verkey, store |-> store]

\* the backend serves the i-th request in flight and sets the result of its future
BackendServe(i, rnd, fail) ==
  /\ i \in 1..Len(pending)
  /\ LET q == pending[i]
         r == BackendResult(q, rnd, fail)
         c == [id |-> q.id, obj |-> q.obj, op |-> q.op, h |-> q.h,
               exc |-> r.exc, did |-> r.did, verkey |-> r.verkey]
     IN /\ store' = r.store
        /\ pending' = [k \in 1..(Len(pending) - 1) |-> IF k < i THEN pending[k] ELSE pending[k + 1]]
        /\ readyq' = Append(readyq, c)
        /\ done' = Append(done, c)
  /\ UNCHANGED <<objVars, sessions, nextHandle, last, scope>>

\* the call whose result was set first resumes after its await and runs to
\* its return: lines 219-224 of create_did, lines 229-234 of load_did
AsyncResume ==
  /\ readyq # <<>>
  /\ LET c == Head(readyq)
         f == IF c.op = "create_did" THEN "create_and_store_my_did" ELSE "get_my_did_with_meta"
     IN /\ IF c.exc # NoExc THEN UNCHANGED <<did, verkey>>
           ELSE IF c.op = "create_did" THEN CreateDidAssign(c.obj, c)
           ELSE LoadDidAssign(c.obj, c)
        /\ last' = [op |-> c.op, obj |-> c.obj, exc |-> c.exc,
                    ret |-> IF c.exc = NoExc THEN c.did ELSE "None",
                    list |-> <<>>, calls |-> <<Call(f, c.h, "None", NoConfig, c.exc)>>]
  /\ readyq' = Tail(readyq)
  /\ UNCHANGED <<pool_name, name, handle, cfg, store, sessions, nextHandle, scope, pending, done>>

\* the object the tasks share; the other object is used from one task only
AsyncObjs == {"w"}

\* both objects constructed without a configuration
InitAsync == InitWith(CfgChoices({[none |-> TRUE, d |-> EmptyDict]}))

NextAsync ==
  \/ \E o \in Objs : Open(o) /\ UNCHANGED auxVars
  \/ \E o \in AsyncObjs, d \in DidArgs, seed \in Seeds, cid \in CidArgs : AsyncCreateDid(o, d, seed, cid)
  \/ \E o \in AsyncObjs, d \in AllDids : AsyncLoadDid(o, d)
  \/ \E i \in 1..MaxCalls, rnd \in RandomKeys, fail \in BOOLEAN : BackendServe(i, rnd, fail)
  \/ AsyncResume

SpecAsync == InitAsync /\ [][NextAsync]_vars

(***************************************************************************)
(* Properties                                                              *)
(***************************************************************************)
\* the object holds a session of the backend that is open: the Open state
IsOpen(o) == handle[o] \in DOMAIN sessions

AlreadyExists == IndyError("WalletAlreadyExistsError")

\* C1: remove() never raises, whatever delete_wallet does, and so close() of an
\* open auto-remove wallet returns normally, the session closed, even when the
\* deletion fails.
C1_RemoveNeverRaises ==
  /\ last.op = "remove" => last.exc = NoExc
  /\ (last.op = "close" /\ last.calls[1].exc = NoExc /\ AutoRemove(cfg[last.obj]))
       => (last.exc = NoExc /\ ~IsOpen(last.obj))

\* C2: when create_wallet fails in open() with an error other than
\* already-exists, open() raises exactly that error (same kind, same code), and
\* has called create_wallet once and nothing after it.
C2_OpenRaisesBackendError ==
  (last.op = "open" /\ last.calls[1].exc \notin {NoExc, AlreadyExists})
    => (last.exc = last.calls[1].exc /\ Len(last.calls) = 1)

\* C3: when create_wallet reports that the wallet already exists, open() goes on
\* to open_wallet with the same configuration; with the handle open_wallet
\* returns, open() returns the object, which holds an open session on its wallet
\* that the did calls accept; an open_wallet failure is raised as it is for a new wallet.
C3_OpenExisting ==
  (last.op = "open" /\ last.calls[1].exc = AlreadyExists) =>
    LET o == last.obj IN
    /\ Len(last.calls) = 2
    /\ last.calls[2].f = "open_wallet"
    /\ last.calls[2].config = last.calls[1].config
    /\ last.exc = last.calls[2].exc
    /\ last.exc = NoExc =>
         /\ last.ret = o
         /\ IsOpen(o)
         /\ sessions[handle[o]] = name[o]
         /\ create_and_store_my_did(store, sessions, handle[o], "None", "s1", FALSE, "vkr", FALSE).exc = NoExc
         /\ list_my_dids_with_meta(store, sessions, handle[o], FALSE).exc = NoExc
         /\ \A i \in 1..Len(store[name[o]].dids) :
              get_my_did_with_meta(store, sessions, handle[o], store[name[o]].dids[i].did, FALSE).exc = NoExc

\* an existing wallet with identities has been opened by a second object
C3_Witness ==
  /\ last.op = "open" /\ last.obj = "x"
  /\ last.calls[1].exc = AlreadyExists
  /\ last.exc = NoExc
  /\ handle["x"] = 2
  /\ Len(store[name["x"]].dids) = 2

\* C4: the handle is set if and only if the object is in the Open state.
C4_HandleIffOpen == \A o \in Objs : handle[o] # 0 <=> IsOpen(o)

Range(q) == {q[i] : i \in 1..Len(q)}

\* the identities stored in the wallet of the object's name
Stored(o) == Range(store[name[o]].dids)

Rec1 == IdentityRecord("did1", "vk1")
Rec2 == IdentityRecord("did2", "vk2")

\* C5: a create_did that succeeds leaves did/verkey the pair derived for its
\* arguments, which it returns and the wallet stores, whatever the pair was
\* before (and another pair than before when the seed is another); a load_did
\* that succeeds leaves them the DID asked for and the verification key stored
\* with it.
C5_CurrentIsLatest ==
  [][\A o \in Objs :
       /\ \A d \in DidArgs, seed \in Seeds, cid \in CidArgs, rnd \in RandomKeys :
            (/\ last'.op = "create_did" /\ last'.obj = o /\ last'.exc = NoExc
             /\ CreateDidWith(o, d, seed, cid, rnd, FALSE)) =>
              /\ verkey'[o] = VerkeyOf(seed, rnd)
              /\ did'[o] = DidOf(d, VerkeyOf(seed, rnd), cid)
              /\ last'.ret = did'[o]
              /\ IdentityRecord(did'[o], verkey'[o]) \in Range(store'[sessions[handle[o]]].dids)
              /\ (d = "None" /\ verkey[o] \notin {"None", VerkeyOf(seed, rnd)}) => did'[o] # did[o]
       /\ \A d \in AllDids :
            (/\ last'.op = "load_did" /\ last'.obj = o /\ last'.exc = NoExc
             /\ LoadDidWith(o, d, FALSE)) =>
              /\ did'[o] = d
              /\ last'.ret = d
              /\ IdentityRecord(d, verkey'[o]) \in Range(store[sessions[handle[o]]].dids)
    ]_vars

\* w created the identity of s1, then that of s2, and has loaded the first again
C5_Witness ==
  /\ last.op = "load_did" /\ last.obj = "w" /\ last.exc = NoExc
  /\ handle["x"] = 0
  /\ store[name["w"]].dids = <<Rec1, Rec2>>
  /\ did["w"] = "did1" /\ verkey["w"] = "vk1"

\* did and verkey are both unset or both set
BothOrNeither(o) == did[o] = "None" <=> verkey[o] = "None"

\* C6 as stated: did and verkey are both unset or both set, and when set they
\* are the DID and key of one identity stored in the wallet.
C6_CurrentIsStored ==
  \A o \in Objs :
    /\ BothOrNeither(o)
    /\ did[o] # "None" => IdentityRecord(did[o], verkey[o]) \in Stored(o)

\* did/verkey of o are the pair of one identity
IsIdentityPair(o) ==
  \E d \in DidArgs, seed \in Seeds, cid \in CidArgs, rnd \in RandomKeys :
    /\ verkey[o] = VerkeyOf(seed, rnd)
    /\ did[o] = DidOf(d, verkey[o], cid)

CurrentStored(o) == did[o] # "None" /\ IdentityRecord(did[o], verkey[o]) \in Stored(o)

\* the step deleted persisted wallet data
Deleted == \E i \in 1..Len(last'.calls) :
             last'.calls[i].f = "delete_wallet" /\ last'.calls[i].exc = NoExc

\* C6, amended: did and verkey are both unset or both set, also after failed
\* operations; when set they are the DID and key of one identity; a step that
\* changes them sets them to an identity stored in the wallet, and they stay a
\* stored identity until the wallet's data is deleted (which does not clear them).
C6_CurrentIsOneIdentity ==
  /\ [](\A o \in Objs : BothOrNeither(o) /\ (did[o] # "None" => IsIdentityPair(o)))
  /\ [][\A o \in Objs :
          /\ <<did'[o], verkey'[o]>> # <<did[o], verkey[o]>> => CurrentStored(o)'
          /\ (CurrentStored(o) /\ ~Deleted) => CurrentStored(o)'
       ]_vars

\* a failed create_did or load_did on an object that has a current identity
C6_Witness ==
  /\ last.op \in {"create_did", "load_did"}
  /\ last.exc = IndyError("CommonIOError")
  /\ IsOpen(last.obj)
  /\ did[last.obj] = "did2" /\ verkey[last.obj] = "vk2"

\* C7: stored_dids on an open wallet returns the identities of the wallet in
\* the order of their creation: it returns the stored sequence; create_did puts
\* a new identity, with the did/verkey it sets, at the end of that sequence; and
\* a stored record keeps its place and its content until the wallet is deleted.
C7_ListInCreationOrder ==
  /\ []((last.op = "stored_dids" /\ last.exc = NoExc) =>
          last.list = store[sessions[handle[last.obj]]].dids)
  /\ [][/\ (last'.op = "create_did" /\ last'.exc = NoExc) =>
            (LET o == last'.obj
                 wn == sessions[handle[o]]
                 rec == IdentityRecord(did'[o], verkey'[o])
             IN \/ rec \in Range(store[wn].dids) /\ store' = store
                \/ /\ \A i \in 1..Len(store[wn].dids) : store[wn].dids[i].did # rec.did
                   /\ store' = [store EXCEPT ![wn].dids = Append(store[wn].dids, rec)])
         /\ \A n \in Names :
              \/ Deleted /\ store'[n] = NoWallet
              \/ /\ Len(store'[n].dids) >= Len(store[n].dids)
                 /\ \A i \in 1..Len(store[n].dids) : store'[n].dids[i] = store[n].dids[i]
      ]_vars

\* the listing after the identity of s1 and then that of s2 were created
C7_Witness ==
  /\ last.op = "stored_dids" /\ last.exc = NoExc
  /\ last.list = <<Rec1, Rec2>>
  /\ did[last.obj] = "did2" /\ verkey[last.obj] = "vk2"

\* C8: create_did with the arguments of an identity the wallet already stores
\* succeeds, sets the stored pair again and stores nothing new, on whichever
\* object holds the session.
C8_SameSeedSamePair ==
  [][\A o \in Objs, d \in DidArgs, seed \in Seeds, cid \in CidArgs, rnd \in RandomKeys :
       LET vk == VerkeyOf(seed, rnd)
           rec == IdentityRecord(DidOf(d, vk, cid), vk)
       IN (/\ last'.op = "create_did" /\ last'.obj = o
           /\ IsOpen(o)
           /\ rec \in Range(store[sessions[handle[o]]].dids)
           /\ CreateDidWith(o, d, seed, cid, rnd, FALSE)) =>
            /\ last'.exc = NoExc
            /\ did'[o] = rec.did /\ verkey'[o] = rec.verkey
            /\ store' = store
    ]_vars

\* x, opened after w closed, has created the identity of the seed w used
C8_Witness ==
  /\ last.op = "create_did" /\ last.obj = "x" /\ last.exc = NoExc
  /\ cfg["w"] = EmptyDict
  /\ handle["w"] = 1 /\ handle["x"] = 2 /\ IsOpen("x")
  /\ did["w"] = "did1" /\ verkey["w"] = "vk1"
  /\ did["x"] = did["w"] /\ verkey["x"] = verkey["w"]
  /\ store[name["x"]].dids = <<Rec1>>

\* C9: close() of an object without the auto_remove key leaves the persisted
\* wallets as they are, open() leaves the identities of every wallet as they
\* are, and an open object lists the stored identities of its wallet in their
\* order and can load each of them.
C9_PersistedAcrossHandles ==
  /\ [][/\ (last'.op = "close" /\ "auto_remove" \notin DOMAIN cfg[last'.obj]) => store' = store
        /\ last'.op = "open" => \A n \in Names : store'[n].dids = store[n].dids
      ]_vars
  /\ [](\A o \in Objs : IsOpen(o) =>
          LET ds == store[name[o]].dids IN
          /\ StoredDidsReturn(list_my_dids_with_meta(store, sessions, handle[o], FALSE).json) = ds
          /\ \A i \in 1..Len(ds) :
               get_my_did_with_meta(store, sessions, handle[o], ds[i].did, FALSE)
                 = [exc |-> NoExc, json |-> ds[i]])

\* x lists the two identities that w created before it closed
C9_Witness ==
  /\ last.op = "stored_dids" /\ last.obj = "x" /\ last.exc = NoExc
  /\ cfg["w"] = EmptyDict
  /\ handle["w"] = 1 /\ ~IsOpen("w") /\ handle["x"] = 2
  /\ did["w"] = "did2" /\ did["x"] = "None"
  /\ last.list = <<Rec1, Rec2>>

\* C10: the configuration open() passes to create_wallet and to open_wallet is
\* the same for both, has no auto_remove key, and has every other key of the
\* object's configuration with the JSON encoding of its value.
C10_BackendConfig ==
  last.op = "open" =>
    \A i \in 1..Len(last.calls) :
      LET a == last.calls[i].config
          c == cfg[last.obj]
      IN /\ "auto_remove" \notin DOMAIN a.json
         /\ DOMAIN a.json = (DOMAIN c) \ {"auto_remove"}
         /\ \A k \in DOMAIN a.json : a.json[k] = JsonDumpsVal(c[k])
         /\ a = last.calls[1].config

\* open() of an object whose configuration has auto_remove and one more key
C10_Witness ==
  /\ last.op = "open" /\ last.obj = "w" /\ last.exc = NoExc
  /\ Len(last.calls) = 2
  /\ cfg["w"] = [k \in CfgKeys |-> IF k = "auto_remove" THEN "True" ELSE "(1,)"]
  /\ last.calls[2].config = [given |-> TRUE, json |-> [k \in {"freshness_time"} |-> "[1]"]]

\* the close_wallet calls of the operation just done
CloseCalls == {i \in 1..Len(last'.calls) : last'.calls[i].f = "close_wallet"}

\* C11: in an "async with" block entered with an open session, the session
\* stays open and the object's handle stays that session while the block runs;
\* no call in the block calls close_wallet; and when the block is left, by
\* return or by a call that raised, close_wallet is called once, on that
\* session, which is closed when the call returns.
C11_ScopedClose ==
  /\ [](\A o \in Objs : scope[o].pc = "body" =>
          (handle[o] = scope[o].h /\ scope[o].h \in DOMAIN sessions))
  /\ [][\A o \in Objs :
          /\ (scope[o].pc = "body" /\ scope'[o].pc = "body" /\ last'.obj = o) => CloseCalls = {}
          /\ (scope[o].pc = "body" /\ scope'[o].pc # "body") =>
               /\ scope'[o].pc = "exited"
               /\ last'.op = "close" /\ last'.obj = o
               /\ Cardinality(CloseCalls) = 1
               /\ \A i \in CloseCalls :
                    /\ last'.calls[i].handle = scope[o].h
                    /\ last'.calls[i].exc = NoExc => scope[o].h \notin DOMAIN sessions'
      ]_vars

\* a block in which a call raised has been left and its session is closed
C11_Witness ==
  /\ scope["w"].pc = "exited" /\ scope["w"].raised
  /\ last.op = "close" /\ last.obj = "w"
  /\ last.calls[1].handle = scope["w"].h /\ last.calls[1].exc = NoExc
  /\ scope["w"].h = 1 /\ 1 \notin DOMAIN sessions

ItemNotFound == IndyError("WalletItemNotFound")

\* the DID d is not among the identities of the wallet the object has open
Unknown(o, d) == IsOpen(o) /\ Find(store[sessions[handle[o]]].dids, d) = {}

\* C12: load_did(d) on an open object, d not stored in its wallet: the call
\* raises what the backend raised, which is WalletItemNotFound unless the
\* backend failed otherwise; no identity is added and did/verkey stay.
C12_LoadUnknownFails ==
  [][\A o \in Objs, d \in AllDids :
       (/\ last'.op = "load_did" /\ last'.obj = o
        /\ Unknown(o, d)
        /\ \E fail \in BOOLEAN : LoadDidWith(o, d, fail))
       => /\ last'.exc # NoExc
          /\ last'.exc = last'.calls[1].exc
          /\ LoadDidWith(o, d, FALSE) => last'.exc = ItemNotFound
          /\ store' = store
          /\ did' = did /\ verkey' = verkey
    ]_vars

\* a load_did of an unknown DID has failed on an open wallet that stores an identity
C12_Witness ==
  /\ last.op = "load_did" /\ last.obj = "w" /\ last.exc = ItemNotFound
  /\ IsOpen("w")
  /\ Stored("w") = {Rec1}

\* the delete_wallet calls of the operation just done
DeleteCalls == {i \in 1..Len(last'.calls) : last'.calls[i].f = "delete_wallet"}

\* the object was constructed with auto_remove True
AutoRemoveTrue(o) == "auto_remove" \in DOMAIN cfg[o] /\ cfg[o]["auto_remove"] = "True"

\* C13: close() calls close_wallet first; it calls delete_wallet, once, for
\* the object's name and after close_wallet, exactly when auto_remove is True
\* (absent counts as False) and close_wallet returned; so the wallet's data
\* changes in close() only with the object's session closed, and never when
\* close_wallet raised.
C13_DeleteAfterClose ==
  [][last'.op = "close" =>
       LET o == last'.obj
           calls == last'.calls
       IN /\ calls[1].f = "close_wallet" /\ calls[1].handle = handle[o]
          /\ DeleteCalls # {} <=> (AutoRemoveTrue(o) /\ calls[1].exc = NoExc)
          /\ DeleteCalls \subseteq {2}
          /\ \A i \in DeleteCalls : calls[i].name = name[o]
          /\ store' # store => /\ DeleteCalls # {}
                               /\ calls[1].exc = NoExc
                               /\ handle[o] \notin DOMAIN sessions'
          /\ calls[1].exc # NoExc => store' = store /\ sessions' = sessions
    ]_vars

\* close() of an open auto-remove wallet has closed the session and then
\* deleted the wallet, identities included
C13_Witness ==
  /\ last.op = "close" /\ last.obj = "w" /\ AutoRemoveTrue("w")
  /\ Len(last.calls) = 2
  /\ last.calls[1].exc = NoExc /\ last.calls[1].handle = 1
  /\ last.calls[2].f = "delete_wallet" /\ last.calls[2].exc = NoExc
  /\ did["w"] = "did1"
  /\ ~store[name["w"]].exists

\* C14: stored_dids and load_did, whether they return or raise, leave every
\* wallet's identities (and the open sessions) as they were; stored_dids also
\* leaves handle, did and verkey of every object as they were.
C14_ReadsLeaveStore ==
  [][/\ last'.op \in {"stored_dids", "load_did"} => store' = store /\ sessions' = sessions
     /\ last'.op = "stored_dids" => handle' = handle /\ did' = did /\ verkey' = verkey
    ]_vars

\* stored_dids has listed two identities for an open object whose current
\* identity is still the second of them
C14_Witness ==
  /\ last.op = "stored_dids" /\ last.obj = "w" /\ last.list = <<Rec1, Rec2>>
  /\ store[name["w"]].dids = <<Rec1, Rec2>>
  /\ IsOpen("w")
  /\ did["w"] = "did2" /\ verkey["w"] = "vk2"

\* create_wallet raised something other than WalletAlreadyExistsError
FatalCreate(call) == call.f = "create_wallet" /\ call.exc \notin {NoExc, AlreadyExists}

\* C15: when create_wallet raises anything but WalletAlreadyExistsError,
\* open() raises without calling open_wallet; an open() that raises, for that
\* or because open_wallet raised, leaves every handle and the open sessions as
\* they were: an object whose handle was None keeps None and has no session.
C15_FailedOpenStaysClosed ==
  [][last'.op = "open" =>
       LET o == last'.obj
           calls == last'.calls
       IN /\ FatalCreate(calls[1]) => Len(calls) = 1 /\ last'.exc # NoExc
          /\ Len(calls) = 2 => calls[2].f = "open_wallet" /\ last'.exc = calls[2].exc
          /\ last'.exc # NoExc =>
               /\ handle' = handle /\ sessions' = sessions
               /\ handle[o] = 0 => handle'[o] = 0 /\ handle'[o] \notin DOMAIN sessions'
    ]_vars

\* open() of a new object has created the wallet and raised what open_wallet
\* raised: the handle is None and no session is open
C15_Witness ==
  /\ last.op = "open" /\ last.obj = "w" /\ last.exc = IndyError("CommonIOError")
  /\ Len(last.calls) = 2 /\ last.calls[1].exc = NoExc
  /\ store[name["w"]].exists
  /\ handle["w"] = 0
  /\ DOMAIN sessions = {}

\* C16: a create_did or load_did whose backend call raises, raises that
\* error, and did and verkey of every object hold what they held before.
C16_FailureKeepsCurrent ==
  [][(last'.op \in {"create_did", "load_did"} /\ last'.calls[1].exc # NoExc)
       => /\ last'.exc = last'.calls[1].exc
          /\ did' = did /\ verkey' = verkey
    ]_vars

\* a create_did has failed on an open object that had a current identity, which it keeps
C16_Witness ==
  /\ last.op = "create_did" /\ last.obj = "w"
  /\ last.exc = IndyError("DidAlreadyExistsError")
  /\ IsOpen("w")
  /\ did["w"] = "did2" /\ verkey["w"] = "vk2"

\* C18: no operation changes an object's configuration, name or pool name:
\* open() pops auto_remove from a copy only, so a close() of an object
\* constructed with auto_remove True, whatever was called before, still calls
\* delete_wallet once close_wallet has returned.
C18_ConfigKept ==
  [][/\ cfg' = cfg /\ name' = name /\ pool_name' = pool_name
     /\ \A o \in Objs :
          (/\ last'.op = "close" /\ last'.obj = o
           /\ last'.calls[1].exc = NoExc
           /\ AutoRemoveTrue(o)')
          => DeleteCalls = {2}
    ]_vars

\* an object constructed with auto_remove True, opened for the second session
\* of the run and used, still has the key and has deleted the wallet at close()
C18_Witness ==
  /\ last.op = "close" /\ last.obj = "w"
  /\ cfg["w"] = [auto_remove |-> "True"]
  /\ last.calls[1].handle = 2 /\ last.calls[1].exc = NoExc
  /\ Len(last.calls) = 2 /\ last.calls[2].exc = NoExc
  /\ did["w"] = "did2"

IdentityOps == {"create_did", "load_did", "stored_dids"}

\* C19: create_did, load_did and stored_dids on an object without an open
\* session, its handle None (never opened) or that of a session closed since,
\* raise what the backend raised for the handle, store no identity and leave
\* did and verkey of every object as they were, also while another object has
\* a session open on the same wallet.
C19_NotOpenFails ==
  [][\A o \in Objs :
       (last'.op \in IdentityOps /\ last'.obj = o /\ ~IsOpen(o))
       => /\ last'.exc = BadHandle(handle[o])
          /\ last'.calls[1].handle = handle[o]
          /\ last'.list = <<>>
          /\ store' = store /\ sessions' = sessions
          /\ did' = did /\ verkey' = verkey
    ]_vars

\* create_did on a closed object has failed for its stale handle while another
\* object has the same wallet open
C19_Witness ==
  /\ last.op = "create_did" /\ last.obj = "w"
  /\ last.exc = IndyError("WalletInvalidHandle")
  /\ handle["w"] = 1 /\ ~IsOpen("w")
  /\ IsOpen("x") /\ name["x"] = name["w"]

\* the backend requests done for calls on o that returned an identity
DoneOk(o) == {i \in 1..Len(done) : done[i].obj = o /\ done[i].exc = NoExc}

\* no call on o is awaiting the backend or waiting to resume
Quiet(o) ==
  /\ \A i \in 1..Len(pending) : pending[i].obj # o
  /\ \A i \in 1..Len(readyq) : readyq[i].obj # o

Last(S) == CHOOSE i \in S : \A j \in S : j <= i

\* C17: with create_did and load_did calls of several tasks in flight on an
\* object, did and verkey are in every state both None or the DID and key one
\* backend request returned together; and once no call is in flight they are
\* the pair of the request that was done last among those that returned one.
C17_ConcurrentPair ==
  \A o \in Objs :
    /\ \/ did[o] = "None" /\ verkey[o] = "None"
       \/ \E i \in DoneOk(o) : did[o] = done[i].did /\ verkey[o] = done[i].verkey
    /\ (Quiet(o) /\ DoneOk(o) # {}) =>
         /\ did[o] = done[Last(DoneOk(o))].did
         /\ verkey[o] = done[Last(DoneOk(o))].verkey

\* two calls on one open object were in flight together; the backend served
\* the second before the first, and both have returned: the first call's pair stays
C17_Witness ==
  /\ pending = <<>> /\ readyq = <<>>
  /\ Len(done) = 2
  /\ done[1].id = 2 /\ done[2].id = 1
  /\ done[1].obj = "w" /\ done[2].obj = "w"
  /\ done[1].exc = NoExc /\ done[2].exc = NoExc
  /\ done[1].did = "did2" /\ done[2].did = "did1"
  /\ did["w"] = "did1" /\ verkey["w"] = "vk1"

====
